---- MODULE Spec2Model ----
(***************************************************************************)
(* The FastAPI integration service of fastapi_integration/main.py: six     *)
(* route handlers over four MongoDB collections.  Every `await` of a       *)
(* handler is one step of the model, so that the handlers of concurrent    *)
(* requests interleave exactly where the event loop can switch between     *)
(* them.                                                                   *)
(***************************************************************************)
EXTENDS Integers, Sequences, FiniteSets, TLC

\* ------------------------------------------------------------------ bounds
\* Requests served in one run (each slot of req is one HTTP request).
MaxReq == 2
\* How often the clock advances in one run.
MaxTicks == 1
\* Documents a collection holds at startup where the startup state is drawn.
MaxDocs == 3
MaxQueries == 2
\* The largest totalRevenue of a customer at startup.
MaxRevenue == 2
\* The clock at startup, in half days since 1970-01-01 (2024-04-01 00:00).
Now0 == 39628

Req == 1..MaxReq

\* Python's None (an absent or null JSON value).
None == "<None>"
\* find_one's None, and the empty locals of a request.
NoDoc == [_id |-> 0]
\* A request that has not been answered yet.
NoResp == [pending |-> TRUE]

VARIABLES
    webhooks,   \* db.webhooks, in insertion order
    customers,  \* db.customers
    queries,    \* db.queries
    invoices,   \* db.invoices
    dbUp,       \* the database answers commands
    now,        \* datetime.utcnow(), in half days
    nextId,     \* the next ObjectId
    req         \* the requests: route, position in the handler, locals, response

vars == <<webhooks, customers, queries, invoices, dbUp, now, nextId, req>>

\* ------------------------------------------------------------ python values
\* bool(x) of an Optional[str]: None and "" are falsy.
Truthy(s) == s # None /\ s # ""

Has(doc, f) == f \in DOMAIN doc

\* -------------------------------------------------------------- the database
\* The documents the collections hold at startup (written by the ERP/CRM, not
\* by this service).
SeedCustomers ==
    << [_id |-> 1, name |-> "Bea", email |-> "b@x.io", status |-> "active",
        totalRevenue |-> 5] >>

SeedQueries ==
    << [_id |-> 2, status |-> "open", priority |-> "high", createdAt |-> Now0 - 62],
       [_id |-> 3, status |-> "closed", priority |-> "low", createdAt |-> Now0 - 3] >>

SeedInvoices ==
    << [_id |-> 4, issueDate |-> Now0 - 34, total |-> 7, status |-> "Paid"],
       [_id |-> 5, issueDate |-> Now0 - 2, total |-> 3, status |-> "Draft"] >>

FirstFreeId == Len(SeedCustomers) + Len(SeedQueries) + Len(SeedInvoices) + 1

\* Variant of FindOne: a lookup on a field no document has, which never finds.
FindOneNever(coll, email) == NoDoc

\* collection.find_one({"email": email}): the first document whose email field
\* equals email, None when there is none.
Matches(coll, email) ==
    {i \in 1..Len(coll) : Has(coll[i], "email") /\ coll[i].email = email}

FindOne(coll, email) ==
    IF Matches(coll, email) = {} THEN NoDoc
    ELSE coll[CHOOSE i \in Matches(coll, email) :
                 \A j \in Matches(coll, email) : i <= j]

\* Variant of InsertOne: replace_one with upsert, which overwrites the first
\* document when there is one.
InsertOneReplacing(coll, doc, id) ==
    LET new == [f \in DOMAIN doc \cup {"_id"} |-> IF f = "_id" THEN id ELSE doc[f]]
    IN  IF coll = << >> THEN << new >> ELSE [coll EXCEPT ![1] = new]

\* collection.insert_one(doc): the driver adds _id and appends the document.
InsertOne(coll, doc, id) == Append(coll, [f \in DOMAIN doc \cup {"_id"} |->
                                            IF f = "_id" THEN id ELSE doc[f]])

\* ------------------------------------------------------------------ requests
IdleReq ==
    [kind |-> "none", pc |-> "idle", params |-> NoDoc, payload |-> NoDoc,
     locals |-> NoDoc, status |-> 0, resp |-> NoResp, prior |-> {}]

Answered == {r \in Req : req[r].pc = "done"}

\* Request r arrives: the requests are numbered in their order of arrival.
Arrives(r) == req[r].pc = "idle" /\ \A q \in Req : q < r => req[q].pc # "idle"

\* The handler of request r is entered with the given parameters.
Enter(r, kind, pc, params, payload) ==
    [req EXCEPT ![r] = [IdleReq EXCEPT !.kind = kind, !.pc = pc, !.params = params,
                                       !.payload = payload, !.prior = Answered]]

\* Request r is answered.
Answer(r, status, resp) ==
    [req EXCEPT ![r].pc = "done", ![r].status = status, ![r].resp = resp]

\* Variant of HTTPException: the exception is swallowed and the request
\* answered 200.
HTTPExceptionSwallowed(r, status, detail) == Answer(r, 200, [detail |-> detail])

\* raise HTTPException(status_code, detail)
HTTPException(r, status, detail) == Answer(r, status, [detail |-> detail])

\* ------------------------------------------------- POST /integration/webhook
\* The JSON bodies posted: leadId absent, null, "" or a string; with a leadId,
\* every email (absent or null, "", new, that of an existing customer) with a
\* name, and every name (absent or null, "", a name) with the new email.
Emails == {None, "", "a@x.io", "b@x.io"}
Names == {None, "", "Ann"}
Bodies ==
    {[email |-> "a@x.io", name |-> "Ann"],
     [leadId |-> None, email |-> "a@x.io", name |-> "Ann"],
     [leadId |-> "", email |-> "a@x.io", name |-> "Ann"]}
    \cup {[leadId |-> "L1", email |-> e, name |-> "Ann"] : e \in Emails}
    \cup {[leadId |-> "L1", email |-> "a@x.io", name |-> n] : n \in Names}

\* Variant of ValidBody: leadId declared Optional[str], so null validates.
ValidBodyNullable(body) == Has(body, "leadId")

\* WebhookPayload: leadId is a required str (Field(...)); there is no
\* min_length, so "" validates.
ValidBody(body) == Has(body, "leadId") /\ body.leadId # None

\* WebhookPayload(**body): the optional fields take their defaults.
WebhookPayload(body) ==
    [leadId |-> body.leadId,
     email |-> IF Has(body, "email") THEN body.email ELSE None,
     name |-> IF Has(body, "name") THEN body.name ELSE None,
     company |-> None, phone |-> None, source |-> "webhook", metadata |-> "{}"]

\* Variant of webhook_data: the record is stored as already processed.
webhook_data_processed(payload, t) ==
    [leadId |-> payload.leadId, email |-> payload.email, name |-> payload.name,
     company |-> payload.company, phone |-> payload.phone,
     source |-> payload.source, metadata |-> payload.metadata,
     received_at |-> t, processed |-> TRUE]

webhook_data(payload, t) ==
    [leadId |-> payload.leadId, email |-> payload.email, name |-> payload.name,
     company |-> payload.company, phone |-> payload.phone,
     source |-> payload.source, metadata |-> payload.metadata,
     received_at |-> t, processed |-> FALSE]

customer_data(payload, t) ==
    [name |-> payload.name, email |-> payload.email, phone |-> payload.phone,
     company |-> payload.company, status |-> "lead", source |-> payload.source,
     tags |-> <<"webhook", "lead">>, createdAt |-> t, updatedAt |-> t]

\* Variant of WantsCustomer: `if payload.email`.
WantsCustomerEmailOnly(payload) == Truthy(payload.email)

\* `if payload.email and payload.name`
WantsCustomer(payload) == Truthy(payload.email) /\ Truthy(payload.name)

\* Variant of NotExisting: the result of the lookup is ignored.
NotExistingAlways(existing_customer) == TRUE

\* `if not existing_customer`
NotExisting(existing_customer) == existing_customer = NoDoc

WebhookResponse(payload) ==
    [success |-> TRUE, message |-> "Webhook processed successfully",
     lead_id |-> payload.leadId]

\* FastAPI validates the body before the handler runs: 422 on failure.
ReceiveWebhook(r, body) ==
    /\ Arrives(r)
    /\ req' = IF ValidBody(body)
                THEN [Enter(r, "webhook", "insert_webhook", body, WebhookPayload(body))
                         EXCEPT ![r].locals =
                                    [webhook_data |->
                                         webhook_data(WebhookPayload(body), now)]]
                ELSE [Enter(r, "webhook", "done", body, NoDoc) EXCEPT
                         ![r].status = 422,
                         ![r].resp = [detail |-> "validation error"]]
    /\ UNCHANGED <<webhooks, customers, queries, invoices, dbUp, now, nextId>>

\* await db.webhooks.insert_one(webhook_data), then the handler up to its next
\* await: customer_data is built before find_one is awaited.
InsertWebhook(r) ==
    /\ req[r].pc = "insert_webhook"
    /\ IF dbUp
         THEN /\ webhooks' = InsertOne(webhooks, req[r].locals.webhook_data, nextId)
              /\ nextId' = nextId + 1
              /\ req' = IF WantsCustomer(req[r].payload)
                          THEN [req EXCEPT ![r].pc = "find_customer",
                                           ![r].locals =
                                               [result |-> nextId,
                                                customer_data |->
                                                    customer_data(req[r].payload, now)]]
                          ELSE [Answer(r, 200, WebhookResponse(req[r].payload))
                                   EXCEPT ![r].locals = [result |-> nextId]]
         ELSE /\ req' = HTTPException(r, 500, "Failed to process webhook")
              /\ UNCHANGED <<webhooks, nextId>>
    /\ UNCHANGED <<customers, queries, invoices, dbUp, now>>

\* await db.customers.find_one({"email": payload.email})
FindCustomer(r) ==
    /\ req[r].pc = "find_customer"
    /\ IF dbUp
         THEN LET existing_customer == FindOne(customers, req[r].payload.email)
                  found == [req EXCEPT ![r].locals =
                               [result |-> req[r].locals.result,
                                customer_data |-> req[r].locals.customer_data,
                                existing_customer |-> existing_customer]]
              IN  req' = IF NotExisting(existing_customer)
                           THEN [found EXCEPT ![r].pc = "insert_customer"]
                           ELSE [found EXCEPT
                                    ![r].pc = "done", ![r].status = 200,
                                    ![r].resp = WebhookResponse(req[r].payload)]
         ELSE req' = HTTPException(r, 500, "Failed to process webhook")
    /\ UNCHANGED <<webhooks, customers, queries, invoices, dbUp, now, nextId>>

\* await db.customers.insert_one(customer_data)
InsertCustomer(r) ==
    /\ req[r].pc = "insert_customer"
    /\ IF dbUp
         THEN /\ customers' = InsertOne(customers, req[r].locals.customer_data, nextId)
              /\ nextId' = nextId + 1
              /\ req' = Answer(r, 200, WebhookResponse(req[r].payload))
         ELSE /\ req' = HTTPException(r, 500, "Failed to process webhook")
              /\ UNCHANGED <<customers, nextId>>
    /\ UNCHANGED <<webhooks, queries, invoices, dbUp, now>>

\* ---------------------------------------------------------------- GET /health
ReceiveHealth(r) ==
    /\ Arrives(r)
    /\ req' = Enter(r, "health", "ping", NoDoc, NoDoc)
    /\ UNCHANGED <<webhooks, customers, queries, invoices, dbUp, now, nextId>>

\* await db.command("ping")
Ping(r) ==
    /\ req[r].pc = "ping"
    /\ req' = IF dbUp
                THEN Answer(r, 200, [status |-> "healthy", timestamp |-> now,
                                     database |-> "connected"])
                ELSE HTTPException(r, 503, "Service unhealthy")
    /\ UNCHANGED <<webhooks, customers, queries, invoices, dbUp, now, nextId>>

\* ------------------------------------------------------------ the pipelines
RECURSIVE SumOver(_, _)
\* {"$sum": "$field"} over the documents of a sequence: a document without the
\* field adds nothing.
SumOver(docs, f) ==
    IF docs = << >> THEN 0
    ELSE (IF Has(Head(docs), f) THEN Head(docs)[f] ELSE 0) + SumOver(Tail(docs), f)

\* "$status", "$priority": a missing field is null.
Field(doc, f) == IF Has(doc, f) THEN doc[f] ELSE None

\* The calendar date of a day number (days since 1970-01-01), as $year, $month
\* and $dateToString compute it.
CivilFromDays(z) ==
    LET zz == z + 719468
        era == zz \div 146097
        doe == zz - era * 146097
        yoe == (doe - doe \div 1460 + doe \div 36524 - doe \div 146096) \div 365
        doy == doe - (365 * yoe + yoe \div 4 - yoe \div 100)
        mp == (5 * doy + 2) \div 153
        d == doy - (153 * mp + 2) \div 5 + 1
        m == IF mp < 10 THEN mp + 3 ELSE mp - 9
        y == yoe + era * 400 + (IF m <= 2 THEN 1 ELSE 0)
    IN  [year |-> y, month |-> m, day |-> d]

\* The day a datetime (in half days) falls on.
DateOf(t) == CivilFromDays(t \div 2)

\* timedelta(days=n), in half days.
timedelta(n) == 2 * n

\* {"$dateToString": {"format": "%Y-%m-%d"}}: the digits YYYYMMDD, which order
\* as the strings do.
DayString(t) == DateOf(t).year * 10000 + DateOf(t).month * 100 + DateOf(t).day

\* {"$dateToString": {"format": "%Y-%m"}}: the digits YYYYMM.
MonthString(t) == DateOf(t).year * 100 + DateOf(t).month

\* to_list(None) of the first n documents.
Take(s, n) == SubSeq(s, 1, IF n < Len(s) THEN n ELSE Len(s))

\* ------------------------------------------- GET /integration/reports/summary
SummaryLimit == 12

\* pipeline_queries: the count of the queries of each status.
QueriesByStatus(coll) ==
    [s \in {Field(coll[i], "status") : i \in 1..Len(coll)} |->
        Len(SelectSeq(coll, LAMBDA d : Field(d, "status") = s))]

\* pipeline_invoices: total and count of the invoices of each month, for the 12
\* latest months.
InvoiceMonths(coll) == {MonthString(coll[i].issueDate) : i \in 1..Len(coll)}

InvoicesByMonth(coll) ==
    [k \in {m \in InvoiceMonths(coll) :
               Cardinality({n \in InvoiceMonths(coll) : n > m}) < SummaryLimit} |->
        LET docs == SelectSeq(coll, LAMBDA d : MonthString(d.issueDate) = k)
        IN  [total |-> SumOver(docs, "total"), count |-> Len(docs)]]

\* pipeline_customers: count and revenue of the customers of each status.
CustomersByStatus(coll) ==
    [s \in {Field(coll[i], "status") : i \in 1..Len(coll)} |->
        LET docs == SelectSeq(coll, LAMBDA d : Field(d, "status") = s)
        IN  [count |-> Len(docs), total_revenue |-> SumOver(docs, "totalRevenue")]]

ReceiveSummary(r) ==
    /\ Arrives(r)
    /\ req' = Enter(r, "summary", "agg_queries", NoDoc, NoDoc)
    /\ UNCHANGED <<webhooks, customers, queries, invoices, dbUp, now, nextId>>

\* await db.queries.aggregate(pipeline_queries).to_list(None)
AggQueries(r) ==
    /\ req[r].pc = "agg_queries"
    /\ req' = IF dbUp
                THEN [req EXCEPT ![r].pc = "agg_invoices",
                                 ![r].locals =
                                     [queries_by_status |-> QueriesByStatus(queries)]]
                ELSE HTTPException(r, 500, "Failed to generate summary report")
    /\ UNCHANGED <<webhooks, customers, queries, invoices, dbUp, now, nextId>>

\* Variant of AggInvoices: a failure of the aggregation is answered with the
\* part of the report computed so far.
AggInvoicesPartial(r) ==
    /\ req[r].pc = "agg_invoices"
    /\ req' = IF dbUp
                THEN [req EXCEPT ![r].pc = "agg_customers",
                                 ![r].locals =
                                     [queries_by_status |->
                                          req[r].locals.queries_by_status,
                                      invoices_by_month |-> InvoicesByMonth(invoices)]]
                ELSE Answer(r, 200, [queries |-> req[r].locals.queries_by_status])
    /\ UNCHANGED <<webhooks, customers, queries, invoices, dbUp, now, nextId>>

\* await db.invoices.aggregate(pipeline_invoices).to_list(None)
AggInvoices(r) ==
    /\ req[r].pc = "agg_invoices"
    /\ req' = IF dbUp
                THEN [req EXCEPT ![r].pc = "agg_customers",
                                 ![r].locals =
                                     [queries_by_status |->
                                          req[r].locals.queries_by_status,
                                      invoices_by_month |-> InvoicesByMonth(invoices)]]
                ELSE HTTPException(r, 500, "Failed to generate summary report")
    /\ UNCHANGED <<webhooks, customers, queries, invoices, dbUp, now, nextId>>

\* await db.customers.aggregate(pipeline_customers).to_list(None), then the
\* SummaryResponse.
AggCustomers(r) ==
    /\ req[r].pc = "agg_customers"
    /\ req' = IF dbUp
                THEN Answer(r, 200,
                            [queries |-> req[r].locals.queries_by_status,
                             invoices |-> req[r].locals.invoices_by_month,
                             customers |-> CustomersByStatus(customers),
                             generated_at |-> now])
                ELSE HTTPException(r, 500, "Failed to generate summary report")
    /\ UNCHANGED <<webhooks, customers, queries, invoices, dbUp, now, nextId>>

\* ----------------------------------------- GET /integration/queries/analytics
DefaultDays == 30

\* Variant of QueryMatches: the window is open at end_date ($lt).
QueryMatchesExclusive(doc, start_date, end_date, status) ==
    /\ Has(doc, "createdAt")
    /\ doc.createdAt >= start_date
    /\ doc.createdAt < end_date
    /\ Truthy(status) => Field(doc, "status") = status

\* The $match of get_query_analytics: createdAt in [start_date, end_date] and,
\* `if status`, the status.
QueryMatches(doc, start_date, end_date, status) ==
    /\ Has(doc, "createdAt")
    /\ doc.createdAt >= start_date
    /\ doc.createdAt <= end_date
    /\ Truthy(status) => Field(doc, "status") = status

QueryGroupKey(doc) ==
    [date |-> DayString(doc.createdAt), status |-> Field(doc, "status"),
     priority |-> Field(doc, "priority")]

\* The $group of get_query_analytics: one document per (date, status, priority).
QueryGroups(coll, start_date, end_date, status) ==
    LET docs == SelectSeq(coll, LAMBDA d : QueryMatches(d, start_date, end_date, status))
    IN  {[_id |-> k,
          count |-> Len(SelectSeq(docs, LAMBDA d : QueryGroupKey(d) = k))] :
            k \in {QueryGroupKey(docs[i]) : i \in 1..Len(docs)}}

\* The lists the pipeline may return: the groups sorted by _id.date ascending.
QueryAnalytics(coll, start_date, end_date, status) ==
    LET groups == QueryGroups(coll, start_date, end_date, status)
    IN  {s \in [1..Cardinality(groups) -> groups] :
            /\ \A i, j \in 1..Cardinality(groups) : i # j => s[i] # s[j]
            /\ \A i, j \in 1..Cardinality(groups) :
                   i < j => s[i]._id.date <= s[j]._id.date}

\* end_date and start_date are computed when the handler is entered.
ReceiveAnalytics(r, days, status) ==
    /\ Arrives(r)
    /\ req' = [Enter(r, "analytics", "aggregate", [days |-> days, status |-> status],
                     NoDoc)
                  EXCEPT ![r].locals = [end_date |-> now,
                                        start_date |-> now - timedelta(days)]]
    /\ UNCHANGED <<webhooks, customers, queries, invoices, dbUp, now, nextId>>

\* await db.queries.aggregate(pipeline).to_list(None)
QueryAnalyticsStep(r) ==
    /\ req[r].pc = "aggregate"
    /\ req[r].kind = "analytics"
    /\ IF dbUp
         THEN \E analytics \in QueryAnalytics(queries, req[r].locals.start_date,
                                              req[r].locals.end_date,
                                              req[r].params.status) :
                 req' = Answer(r, 200, [period |-> req[r].params.days,
                                        analytics |-> analytics,
                                        generated_at |-> now])
         ELSE req' = HTTPException(r, 500, "Failed to generate analytics")
    /\ UNCHANGED <<webhooks, customers, queries, invoices, dbUp, now, nextId>>

\* ------------------------------------------- GET /integration/invoices/revenue
DefaultMonths == 6

\* The $match of get_revenue_analytics.
InvoiceMatches(doc, start_date, end_date) ==
    /\ Has(doc, "issueDate")
    /\ doc.issueDate >= start_date
    /\ doc.issueDate <= end_date
    /\ Field(doc, "status") \in {"Paid", "Sent"}

InvoiceGroupKey(doc) ==
    [year |-> DateOf(doc.issueDate).year, month |-> DateOf(doc.issueDate).month]

\* The $group and $sort of get_revenue_analytics: the keys are distinct, so the
\* order is fixed.  The average is kept as the fraction total / count.
RevenueData(coll, start_date, end_date) ==
    LET docs == SelectSeq(coll, LAMBDA d : InvoiceMatches(d, start_date, end_date))
        keys == {InvoiceGroupKey(docs[i]) : i \in 1..Len(docs)}
        Group(k) ==
            LET g == SelectSeq(docs, LAMBDA d : InvoiceGroupKey(d) = k)
            IN  [_id |-> k, total_revenue |-> SumOver(g, "total"),
                 invoice_count |-> Len(g),
                 avg_invoice_value |-> <<SumOver(g, "total"), Len(g)>>]
    IN  CHOOSE s \in [1..Cardinality(keys) -> {Group(k) : k \in keys}] :
            \A i, j \in 1..Cardinality(keys) :
                i < j => \/ s[i]._id.year < s[j]._id.year
                         \/ /\ s[i]._id.year = s[j]._id.year
                            /\ s[i]._id.month < s[j]._id.month

ReceiveRevenue(r, months) ==
    /\ Arrives(r)
    /\ req' = [Enter(r, "revenue", "aggregate", [months |-> months], NoDoc)
                  EXCEPT ![r].locals = [end_date |-> now,
                                        start_date |-> now - timedelta(months * 30)]]
    /\ UNCHANGED <<webhooks, customers, queries, invoices, dbUp, now, nextId>>

\* await db.invoices.aggregate(pipeline).to_list(None)
RevenueStep(r) ==
    /\ req[r].pc = "aggregate"
    /\ req[r].kind = "revenue"
    /\ req' = IF dbUp
                THEN Answer(r, 200,
                            [period |-> req[r].params.months,
                             revenue_data |-> RevenueData(invoices,
                                                          req[r].locals.start_date,
                                                          req[r].locals.end_date),
                             generated_at |-> now])
                ELSE HTTPException(r, 500, "Failed to generate revenue analytics")
    /\ UNCHANGED <<webhooks, customers, queries, invoices, dbUp, now, nextId>>

\* --------------------------------------------- GET /integration/customers/top
DefaultLimit == 10

\* Variant of HasRevenue: $gte in place of $gt.
HasRevenueOrZero(doc) == Has(doc, "totalRevenue") /\ doc.totalRevenue >= 0

\* {"$match": {"totalRevenue": {"$gt": 0}}}
HasRevenue(doc) == Has(doc, "totalRevenue") /\ doc.totalRevenue > 0

\* {"$project": {name, email, company, totalRevenue, status}}: _id is kept.
Project(doc) ==
    [f \in DOMAIN doc \cap {"_id", "name", "email", "company", "totalRevenue", "status"}
        |-> doc[f]]

\* {"$limit": limit}: the server rejects a limit that is not positive.
LimitAccepted(limit) == limit > 0

\* {"$sort": {"totalRevenue": -1}}
RevenueBefore(coll, i, j) == coll[i].totalRevenue >= coll[j].totalRevenue

\* The orders in which the $sort may return the documents at the given
\* indices: every order in which RevenueBefore never fails (documents with equal
\* totalRevenue come in any order).
SortOrders(coll, idx) ==
    {p \in [1..Cardinality(idx) -> idx] :
        /\ \A i, j \in 1..Cardinality(idx) : i # j => p[i] # p[j]
        /\ \A i, j \in 1..Cardinality(idx) : i < j => RevenueBefore(coll, p[i], p[j])}

\* The lists the pipeline of get_top_customers may return.
TopCustomers(coll, limit) ==
    LET idx == {i \in 1..Len(coll) : HasRevenue(coll[i])}
    IN  {Take([i \in 1..Cardinality(idx) |-> Project(coll[p[i]])], limit) :
            p \in SortOrders(coll, idx)}

ReceiveTop(r, limit) ==
    /\ Arrives(r)
    /\ req' = Enter(r, "top", "aggregate", [limit |-> limit], NoDoc)
    /\ UNCHANGED <<webhooks, customers, queries, invoices, dbUp, now, nextId>>

\* await db.customers.aggregate(pipeline).to_list(None)
TopStep(r) ==
    /\ req[r].pc = "aggregate"
    /\ req[r].kind = "top"
    /\ IF dbUp /\ LimitAccepted(req[r].params.limit)
         THEN \E top_customers \in TopCustomers(customers, req[r].params.limit) :
                 req' = Answer(r, 200, [top_customers |-> top_customers,
                                        generated_at |-> now])
         ELSE req' = HTTPException(r, 500, "Failed to fetch top customers")
    /\ UNCHANGED <<webhooks, customers, queries, invoices, dbUp, now, nextId>>

\* ---------------------------------------------------------------- environment
DbDown ==
    /\ dbUp
    /\ dbUp' = FALSE
    /\ UNCHANGED <<webhooks, customers, queries, invoices, now, nextId, req>>

DbBack ==
    /\ ~dbUp
    /\ dbUp' = TRUE
    /\ UNCHANGED <<webhooks, customers, queries, invoices, now, nextId, req>>

Tick ==
    /\ now < Now0 + MaxTicks
    /\ now' = now + 1
    /\ UNCHANGED <<webhooks, customers, queries, invoices, dbUp, nextId, req>>

\* -------------------------------------------------------------- specification
\* The service with its collections as the ERP/CRM left them: any requests to
\* the six routes, interleaved at their awaits, while the database comes and
\* goes.  The handlers only copy the clock into documents and responses, so it
\* stands still here; it advances in SpecSerial and SpecAnalytics.
Init ==
    /\ webhooks = << >>
    /\ customers = SeedCustomers
    /\ queries = SeedQueries
    /\ invoices = SeedInvoices
    /\ dbUp = TRUE
    /\ now = Now0
    /\ nextId = FirstFreeId
    /\ req = [r \in Req |-> IdleReq]

Next ==
    \/ \E r \in Req, body \in Bodies : ReceiveWebhook(r, body)
    \/ \E r \in Req : InsertWebhook(r)
    \/ \E r \in Req : FindCustomer(r)
    \/ \E r \in Req : InsertCustomer(r)
    \/ \E r \in Req : ReceiveHealth(r)
    \/ \E r \in Req : Ping(r)
    \/ \E r \in Req : ReceiveSummary(r)
    \/ \E r \in Req : AggQueries(r)
    \/ \E r \in Req : AggInvoices(r)
    \/ \E r \in Req : AggCustomers(r)
    \/ \E r \in Req : ReceiveAnalytics(r, DefaultDays, None)
    \/ \E r \in Req : QueryAnalyticsStep(r)
    \/ \E r \in Req : ReceiveRevenue(r, DefaultMonths)
    \/ \E r \in Req : RevenueStep(r)
    \/ \E r \in Req : ReceiveTop(r, DefaultLimit)
    \/ \E r \in Req : TopStep(r)
    \/ DbDown
    \/ DbBack

Spec == Init /\ [][Next]_vars

\* Serialized submission of webhooks: a request arrives only after every earlier
\* request has been answered.
SerialWebhook(r, body) ==
    /\ \A q \in Req : q < r => req[q].pc = "done"
    /\ ReceiveWebhook(r, body)

NextSerial ==
    \/ \E r \in Req, body \in Bodies : SerialWebhook(r, body)
    \/ \E r \in Req : InsertWebhook(r)
    \/ \E r \in Req : FindCustomer(r)
    \/ \E r \in Req : InsertCustomer(r)
    \/ DbDown
    \/ DbBack
    \/ Tick

SpecSerial == Init /\ [][NextSerial]_vars

\* get_top_customers over any customers collection of up to MaxDocs documents,
\* each without totalRevenue or with one in -1..MaxRevenue, and any limit.
TopDoc(i, c) ==
    IF c = 0 THEN [_id |-> i, name |-> "C", email |-> "c@x.io", status |-> "lead"]
    ELSE [_id |-> i, name |-> "C", email |-> "c@x.io", status |-> "active",
          totalRevenue |-> c - 2]

Limits == -1..(MaxDocs + 1)

InitTop ==
    /\ webhooks = << >>
    /\ \E n \in 0..MaxDocs : \E c \in [1..n -> 0..(MaxRevenue + 2)] :
          customers = [i \in 1..n |-> TopDoc(i, c[i])]
    /\ queries = << >>
    /\ invoices = << >>
    /\ dbUp = TRUE
    /\ now = Now0
    /\ nextId = MaxDocs + 1
    /\ req = [r \in Req |-> IdleReq]

NextTop ==
    \/ \E limit \in Limits : ReceiveTop(1, limit)
    \/ TopStep(1)

SpecTop == InitTop /\ [][NextTop]_vars

\* get_query_analytics over any queries collection of up to MaxQueries
\* documents created 31, 30.5 and 30 days before startup, at startup and half
\* a day after it (or without createdAt), any days and any status parameter.
QueryTimes == {Now0 - 62, Now0 - 61, Now0 - 60, Now0, Now0 + 1}

QueryDocs(i) ==
    {[_id |-> i, status |-> "open", priority |-> "high"]}
    \cup {[_id |-> i, status |-> s, priority |-> p, createdAt |-> t] :
             s \in {"open", "closed"}, p \in {"high", "low"}, t \in QueryTimes}

DaysParams == {-1, 0, DefaultDays}
StatusParams == {None, "", "open"}

InitAnalytics ==
    /\ webhooks = << >>
    /\ customers = << >>
    /\ \E n \in 0..MaxQueries :
          queries \in {q \in [1..n -> UNION {QueryDocs(i) : i \in 1..n}] :
                          \A i \in 1..n : q[i]._id = i}
    /\ invoices = << >>
    /\ dbUp = TRUE
    /\ now = Now0
    /\ nextId = MaxQueries + 1
    /\ req = [r \in Req |-> IdleReq]

NextAnalytics ==
    \/ \E days \in DaysParams, status \in StatusParams : ReceiveAnalytics(1, days, status)
    \/ QueryAnalyticsStep(1)
    \/ Tick

SpecAnalytics == InitAnalytics /\ [][NextAnalytics]_vars

\* ---------------------------------------------------------------- properties
Done(r) == req[r].pc = "done"

IsWebhook(r) == req[r].kind = "webhook"

\* The customers the webhook handler has created: the collection is only
\* appended to, so they are the documents after those present at startup.
Created == SubSeq(customers, Len(SeedCustomers) + 1, Len(customers))

CreatedWith(email) == {i \in 1..Len(Created) : Created[i].email = email}

\* The webhook requests for an email whose find_one has returned None.
FoundNone(email) ==
    {r \in Req : /\ IsWebhook(r)
                 /\ req[r].payload # NoDoc
                 /\ req[r].payload.email = email
                 /\ Has(req[r].locals, "existing_customer")
                 /\ req[r].locals.existing_customer = NoDoc}

\* Two requests overlap when neither was answered before the other arrived.
Overlap(q, r) == q # r /\ q \notin req[r].prior /\ r \notin req[q].prior

\* C1 as claimed: in every reachable state the webhook handler has created at
\* most one customer per email, whatever the interleaving of the requests.
C1_AtMostOncePerEmail ==
    \A e \in Emails : Cardinality(CreatedWith(e)) <= 1

\* C1, amended: the customers created for an email are never more than the
\* requests for it whose lookup found none, and two of them exist only when two
\* overlapping requests for that email both found none.
C1_AtMostOncePerLookup ==
    \A e \in Emails :
        /\ Cardinality(CreatedWith(e)) <= Cardinality(FoundNone(e))
        /\ Cardinality(CreatedWith(e)) >= 2 =>
               \E q, r \in FoundNone(e) : Overlap(q, r)

\* C1 witness: two overlapping requests have both created a customer for the
\* same email.
C1_Witness ==
    \E e \in Emails : \E q, r \in FoundNone(e) :
        /\ Overlap(q, r)
        /\ Done(q) /\ Done(r) /\ req[q].status = 200 /\ req[r].status = 200
        /\ Cardinality(CreatedWith(e)) = 2

\* The webhook record a request has written: the one with the inserted_id.
Recorded(r) ==
    {i \in 1..Len(webhooks) :
        Has(req[r].locals, "result") /\ webhooks[i]._id = req[r].locals.result}

\* C2: a database step of a webhook request taken while the database answers
\* never fails the request, and when it answers the request the answer is
\* success=true with the payload's leadId and the request's record is in
\* webhooks with that leadId and processed=false.
C2_ValidWebhookSucceeds ==
    [][\A r \in Req :
          (/\ IsWebhook(r) /\ ~Done(r) /\ dbUp
           /\ req'[r].pc = "done")
          => /\ req'[r].status = 200
             /\ req'[r].resp.success = TRUE
             /\ req'[r].resp.lead_id = req[r].params.leadId
             /\ \E i \in 1..Len(webhooks') :
                   /\ webhooks'[i]._id = req'[r].locals.result
                   /\ webhooks'[i].leadId = req[r].params.leadId
                   /\ webhooks'[i].processed = FALSE]_vars

\* C2 witness: requests without an email and for an existing customer's email
\* have both been answered with success.
C2_Witness ==
    \E q, r \in Req :
        /\ IsWebhook(q) /\ Done(q) /\ req[q].status = 200
        /\ req[q].payload.email = None
        /\ IsWebhook(r) /\ Done(r) /\ req[r].status = 200
        /\ req[r].payload.email = "b@x.io"
        /\ Recorded(q) # {} /\ Recorded(r) # {}

\* Requests q and r are webhook requests with valid bodies carrying this email
\* and this name, q the earlier one, both answered without a failed database
\* call.
BothCarry(q, r, email, name) ==
    /\ q < r
    /\ \A x \in {q, r} :
          /\ IsWebhook(x) /\ Done(x) /\ req[x].payload # NoDoc
          /\ req[x].params.email = email /\ req[x].params.name = name
          /\ req[x].status # 500

ExactlyOneCustomer(q, r, email) ==
    /\ req[q].status = 200 /\ req[q].resp.success = TRUE
    /\ req[r].status = 200 /\ req[r].resp.success = TRUE
    /\ Cardinality(Matches(customers, email)) = 1

\* C3 as claimed: after two webhook requests with the same email and name,
\* handled one after the other for an email no customer had (no database call
\* of theirs failing), exactly one customer has that email and both requests
\* returned success.
C3_SerialExactlyOne ==
    \A q, r \in Req : \A e \in Emails \ {None}, n \in Names \ {None} :
        (BothCarry(q, r, e, n) /\ Matches(SeedCustomers, e) = {})
        => ExactlyOneCustomer(q, r, e)

\* C3, amended: the same for a non-empty email and a non-empty name.
C3_SerialExactlyOneNonEmpty ==
    \A q, r \in Req : \A e \in Emails \ {None, ""}, n \in Names \ {None, ""} :
        (BothCarry(q, r, e, n) /\ Matches(SeedCustomers, e) = {})
        => ExactlyOneCustomer(q, r, e)

\* C3 witness: two serial requests for a new email have been answered and the
\* second found the customer the first created.
C3_Witness ==
    \E q, r \in Req :
        /\ BothCarry(q, r, "a@x.io", "Ann")
        /\ q \in req[r].prior
        /\ req[q].locals.existing_customer = NoDoc
        /\ req[r].locals.existing_customer # NoDoc
        /\ Cardinality(Matches(customers, "a@x.io")) = 1

\* A parameter is present, or present and non-empty.
Present(s, nonEmpty) == s # None /\ (nonEmpty => s # "")

\* What a step that inserts a customer does, given what counts as email and
\* name being present: it is a step of a webhook request with both present
\* whose lookup found none, and it appends one lead without totalRevenue and
\* leaves the customers there unchanged.
InsertsOnlyWhen(r, nonEmpty) ==
    (customers' # customers /\ req'[r] # req[r]) =>
        /\ IsWebhook(r)
        /\ Present(req[r].payload.email, nonEmpty) /\ Present(req[r].payload.name, nonEmpty)
        /\ Has(req[r].locals, "existing_customer")
        /\ req[r].locals.existing_customer = NoDoc
        /\ Len(customers') = Len(customers) + 1
        /\ SubSeq(customers', 1, Len(customers)) = customers
        /\ LET c == customers'[Len(customers')] IN
              /\ c.email = req[r].payload.email
              /\ c.name = req[r].payload.name
              /\ c.status = "lead"
              /\ c.tags = <<"webhook", "lead">>
              /\ ~Has(c, "totalRevenue")

\* A step that answers a webhook request with success, the request having email
\* and name present and no customer found for the email, inserts a customer.
InsertsWhen(r, nonEmpty) ==
    (/\ IsWebhook(r) /\ ~Done(r)
     /\ req'[r].pc = "done" /\ req'[r].status = 200
     /\ Present(req[r].payload.email, nonEmpty) /\ Present(req[r].payload.name, nonEmpty)
     /\ IF Has(req'[r].locals, "existing_customer")
          THEN req'[r].locals.existing_customer = NoDoc
          ELSE Matches(customers, req[r].payload.email) = {})
    => customers' # customers


\* C4 as claimed: a webhook request inserts a customer exactly when email and
\* name are present and the lookup finds none; the customer is a lead tagged
\* webhook, lead without totalRevenue; nothing else changes customers.
C4_InsertIffPresent ==
    [][/\ customers' # customers => \E r \in Req : req'[r] # req[r]
       /\ \A r \in Req : InsertsOnlyWhen(r, FALSE) /\ InsertsWhen(r, FALSE)]_vars

\* C4, amended: the same with present and non-empty in place of present (a
\* request that fails inserts nothing).
C4_InsertIffNonEmpty ==
    [][/\ customers' # customers => \E r \in Req : req'[r] # req[r]
       /\ \A r \in Req : InsertsOnlyWhen(r, TRUE) /\ InsertsWhen(r, TRUE)]_vars

\* C4 witness: one request has created a customer, and a request for an
\* existing customer's email has been answered with that customer untouched.
C4_Witness ==
    \E q, r \in Req :
        /\ IsWebhook(q) /\ Done(q) /\ req[q].status = 200
        /\ q \in FoundNone("a@x.io")
        /\ Cardinality(CreatedWith("a@x.io")) = 1
        /\ IsWebhook(r) /\ Done(r) /\ req[r].status = 200
        /\ req[r].payload.email = "b@x.io"
        /\ req[r].locals.existing_customer = SeedCustomers[1]
        /\ customers[1] = SeedCustomers[1]

\* C5: a customer step (find_one, insert_one) of a webhook request that raises
\* ends the request with the 500 response and writes nothing; from then on
\* the request does nothing more and its webhook record stays in webhooks.
C5_NoRollbackNoRetry ==
    [][\A r \in Req : IsWebhook(r) =>
          /\ (/\ req[r].pc \in {"find_customer", "insert_customer"}
              /\ ~dbUp /\ req'[r] # req[r])
             => /\ req'[r].pc = "done"
                /\ req'[r].status = 500
                /\ req'[r].resp = [detail |-> "Failed to process webhook"]
                /\ webhooks' = webhooks /\ customers' = customers
                /\ \E i \in 1..Len(webhooks) :
                      webhooks[i]._id = req[r].locals.result
          /\ (Done(r) /\ req[r].status = 500 /\ Has(req[r].locals, "result"))
             => /\ req'[r] = req[r]
                /\ \E i \in 1..Len(webhooks') :
                      /\ webhooks'[i]._id = req[r].locals.result
                      /\ webhooks'[i].leadId = req[r].payload.leadId]_vars

\* C5 witness: a request has failed at insert_one on customers after its
\* lookup, its webhook record is stored, and a later request has been served.
C5_Witness ==
    \E q, r \in Req :
        /\ IsWebhook(q) /\ Done(q) /\ req[q].status = 500
        /\ q \in FoundNone("a@x.io")
        /\ Recorded(q) # {}
        /\ CreatedWith("a@x.io") = {}
        /\ Done(r) /\ q \in req[r].prior

\* A request that never entered the handler: answered with a 4xx, no locals,
\* and no webhook record of its own.
Rejected(r) ==
    /\ Done(r)
    /\ req[r].status \in 400..499
    /\ req[r].payload = NoDoc /\ req[r].locals = NoDoc

\* Every webhook record was written by a request that entered the handler.
RecordsAccounted ==
    Len(webhooks) = Cardinality({r \in Req : Has(req[r].locals, "result")})

\* C6 as claimed: a webhook request whose leadId is missing, null or "" is
\* rejected with a 4xx before any database access.
C6_RejectsEmptyLeadId ==
    /\ RecordsAccounted
    /\ \A r \in Req :
          (IsWebhook(r) /\ (~Has(req[r].params, "leadId")
                            \/ req[r].params.leadId \in {None, ""}))
          => Rejected(r)

\* C6, amended: a webhook request whose leadId is missing or null is rejected
\* with 422 before any database access; "" is accepted as a leadId.
C6_RejectsMissingLeadId ==
    /\ RecordsAccounted
    /\ \A r \in Req :
          IsWebhook(r) =>
             IF ~Has(req[r].params, "leadId") \/ req[r].params.leadId = None
               THEN Rejected(r) /\ req[r].status = 422
               ELSE req[r].payload # NoDoc /\ req[r].status # 422

\* C6 witness: requests without leadId and with a null leadId have been
\* rejected and nothing has been written.
C6_Witness ==
    \E q, r \in Req :
        /\ IsWebhook(q) /\ ~Has(req[q].params, "leadId") /\ Rejected(q)
        /\ IsWebhook(r) /\ Has(req[r].params, "leadId") /\ Rejected(r)
        /\ webhooks = << >> /\ customers = SeedCustomers

IsTop(r) == req[r].kind = "top" /\ Done(r)

\* The customers with a positive totalRevenue.
Paying == {i \in 1..Len(customers) : Has(customers[i], "totalRevenue")
                                       /\ customers[i].totalRevenue > 0}

\* A returned list is made of distinct customers with a positive totalRevenue,
\* has min(limit, number of paying customers) entries, and no customer left
\* out has more revenue than one returned.
HighestPaying(top, limit) ==
    /\ Len(top) <= limit
    /\ Len(top) = (IF limit < Cardinality(Paying) THEN limit ELSE Cardinality(Paying))
    /\ \A k \in 1..Len(top) :
          /\ top[k].totalRevenue > 0
          /\ \E i \in Paying : /\ customers[i]._id = top[k]._id
                               /\ customers[i].totalRevenue = top[k].totalRevenue
    /\ \A k, l \in 1..Len(top) : k # l => top[k]._id # top[l]._id
    /\ \A i \in Paying :
          (\A k \in 1..Len(top) : top[k]._id # customers[i]._id)
          => \A k \in 1..Len(top) : top[k].totalRevenue >= customers[i].totalRevenue

IsAnalytics(r) == req[r].kind = "analytics" /\ Done(r) /\ req[r].status = 200

\* The queries a request counts: created within the days before the request
\* (end_date is the time of the request), both ends included, and of the status
\* asked for when the status parameter is present (or present and non-empty).
CountedBy(r, nonEmpty) ==
    {i \in 1..Len(queries) :
        /\ Has(queries[i], "createdAt")
        /\ req[r].locals.end_date - 2 * req[r].params.days <= queries[i].createdAt
        /\ queries[i].createdAt <= req[r].locals.end_date
        /\ Present(req[r].params.status, nonEmpty) => queries[i].status = req[r].params.status}

RECURSIVE SumCounts(_)
SumCounts(groups) ==
    IF groups = << >> THEN 0 ELSE Head(groups).count + SumCounts(Tail(groups))

\* Every counted query is in exactly one group, and the counts add up.
GroupsCount(r, nonEmpty) ==
    LET a == req[r].resp.analytics IN
    /\ SumCounts(a) = Cardinality(CountedBy(r, nonEmpty))
    /\ \A k, l \in 1..Len(a) : k # l => a[k]._id # a[l]._id
    /\ \A k \in 1..Len(a) :
          a[k].count = Cardinality({i \in CountedBy(r, nonEmpty) :
                                       /\ a[k]._id.date = DayString(queries[i].createdAt)
                                       /\ a[k]._id.status = queries[i].status
                                       /\ a[k]._id.priority = queries[i].priority})

\* C8 as claimed: a query is counted exactly when it was created in
\* [now - days, now] and, whenever a status parameter is supplied, has that
\* status; every counted query adds 1 to exactly one group.
C8_CountsWindowAndStatus ==
    \A r \in Req : IsAnalytics(r) => GroupsCount(r, FALSE)

\* C8, amended: the same with the status filter applied whenever a non-empty
\* status parameter is supplied (status= is ignored).
C8_CountsWindowAndNonEmptyStatus ==
    \A r \in Req : IsAnalytics(r) => GroupsCount(r, TRUE)

\* C8 witness: with days=30 and status=open, of an open query 31 days old and
\* an open query created at the very time of the request only the second is
\* counted.
C8_Witness ==
    /\ IsAnalytics(1)
    /\ req[1].params = [days |-> 30, status |-> "open"]
    /\ Len(queries) = 2
    /\ Has(queries[1], "createdAt") /\ Has(queries[2], "createdAt")
    /\ queries[1].createdAt = req[1].locals.end_date - 62
    /\ queries[2].createdAt = req[1].locals.end_date
    /\ queries[1].status = "open" /\ queries[2].status = "open"
    /\ Len(req[1].resp.analytics) = 1
    /\ req[1].resp.analytics[1].count = 1
    /\ req[1].resp.analytics[1]._id.date = DayString(queries[2].createdAt)

Extends(old, new) == Len(new) >= Len(old) /\ SubSeq(new, 1, Len(old)) = old

\* C9: every step leaves queries and invoices alone and the documents of
\* webhooks and customers as they are; what is added is one document, added by
\* a step of a webhook request, a webhook record with processed=false; a step
\* of a GET request changes no collection.
C9_OnlyWebhookInserts ==
    [][/\ queries' = queries /\ invoices' = invoices
       /\ Extends(webhooks, webhooks') /\ Extends(customers, customers')
       /\ Len(webhooks') + Len(customers') <= Len(webhooks) + Len(customers) + 1
       /\ \A i \in 1..Len(webhooks') : webhooks'[i].processed = FALSE
       /\ (webhooks' # webhooks \/ customers' # customers)
          => \E r \in Req : IsWebhook(r) /\ req'[r] # req[r]
       /\ \A r \in Req :
             (req'[r] # req[r] /\ req'[r].kind # "webhook")
             => webhooks' = webhooks /\ customers' = customers]_vars

\* C9 witness: a webhook request has added a record and a customer, and a
\* summary request has been answered after it.
C9_Witness ==
    \E q, r \in Req :
        /\ IsWebhook(q) /\ Done(q) /\ req[q].status = 200
        /\ Len(webhooks) = 1 /\ Len(customers) = Len(SeedCustomers) + 1
        /\ q \in req[r].prior
        /\ req[r].kind = "summary" /\ Done(r) /\ req[r].status = 200
        /\ req[r].resp.customers["lead"].count = 1

\* The positions of the handlers at which a database call is awaited.
DbCalls ==
    {"insert_webhook", "find_customer", "insert_customer", "ping", "agg_queries",
     "agg_invoices", "agg_customers", "aggregate"}

\* C10: a database call made while the database is unreachable ends its
\* request with 503 (health) or 500 (the other routes), with the error detail
\* alone as the response and nothing written; an answered request does nothing
\* more; and a call made while the database is reachable does not fail, whatever
\* failed before.
C10_FailedCallFailsRequest ==
    [][\A r \in Req :
          /\ (req[r].pc \in DbCalls /\ ~dbUp /\ req'[r] # req[r])
             => /\ req'[r].pc = "done"
                /\ req'[r].status = (IF req[r].kind = "health" THEN 503 ELSE 500)
                /\ DOMAIN req'[r].resp = {"detail"}
                /\ UNCHANGED <<webhooks, customers, queries, invoices>>
          /\ (req[r].pc \in DbCalls /\ dbUp /\ req'[r] # req[r])
             => req'[r].status = (IF req'[r].pc = "done" THEN 200 ELSE 0)
          /\ Done(r) => req'[r] = req[r]]_vars

\* C10 witness: a summary request has failed at its second aggregation, its
\* first result discarded, and a health request that arrived after that answer
\* has been answered healthy.
C10_Witness ==
    \E q, r \in Req :
        /\ req[q].kind = "summary" /\ Done(q) /\ req[q].status = 500
        /\ Has(req[q].locals, "queries_by_status")
        /\ q \in req[r].prior
        /\ req[r].kind = "health" /\ Done(r) /\ req[r].status = 200
====
